---------------------------- MODULE Spec2Model ----------------------------
(***************************************************************************)
(* State-machine model of GCFEnumerator (src/source/GCFEnumerator.py):     *)
(*   - efficient_gcf_calculation : the first-pass GCF evaluator            *)
(*   - __create_series_list / __first_enumeration : the enumeration engine *)
(*   - __refine_results : the refinement engine                            *)
(* Three specifications share the module: SpecGCF runs the evaluator on    *)
(* arbitrary integer sequences, SpecEnum runs the first enumeration on     *)
(* compact polynomial specifications, SpecRefine runs the refinement on a  *)
(* batch of intermediate matches.                                          *)
(***************************************************************************)
EXTENDS Integers, Sequences, FiniteSets, TLC

VARIABLES
    \* ---- efficient_gcf_calculation (SpecGCF) ----
    a_, b_,                \* the sequences of the enclosing scope
    prev_q, q, prev_p, p,  \* the recurrence registers
    gcf_i,                 \* the loop index i
    gcf_pc,                \* "loop" | "returned" | "idle"
    gcf_key,               \* the returned hash key
    \* ---- __first_enumeration (SpecEnum) ----
    poly_a, poly_b,        \* compact polynomial specifications
    hash_table,            \* the LHS hash table: the set of keys it contains
    print_results,         \* the print_results argument
    pc,                    \* position in __first_enumeration
    size_a, size_b,        \* get_an_length / get_bn_length
    num_iterations,
    counter,
    coef_list, series_list,\* the cached side, after the zero filter
    cached_idx,            \* ghost: iterator position of each cached tuple
    outer, inner,          \* iterator positions of the streamed / cached loop
    results,               \* list of Match
    evals,                 \* ghost: log of the evaluated pairs
    \* ---- __refine_results (SpecRefine) ----
    intermediate_results,  \* the input batch
    lhs_table,             \* hash_table.evaluate: key -> outcome
    gcf_value,             \* EfficientGCF(an, bn).evaluate() of each polynomial pair
    ref_pc,                \* "loop" | "done" | "raised"
    ref_counter,           \* counter
    refined                \* results: list of RefinedMatch

gcfVars == <<a_, b_, prev_q, q, prev_p, p, gcf_i, gcf_pc, gcf_key>>
enumVars == <<poly_a, poly_b, hash_table, print_results, pc, size_a, size_b,
              num_iterations, counter, coef_list, series_list, cached_idx,
              outer, inner, results, evals>>
refVars == <<intermediate_results, lhs_table, gcf_value, ref_pc, ref_counter, refined>>
vars == <<gcfVars, enumVars, refVars>>

(***************************************************************************)
(* Bounds of the model.  The three g_N_* definitions stand for the         *)
(* program's hyper-parameters (32 terms, 10 key digits, 100 compared       *)
(* digits), scaled down so that the integers stay small.                   *)
(***************************************************************************)
MaxLen == 3
g_N_initial_search_terms == 3
g_N_initial_key_length == 0
g_N_verify_compare_length == 2
MaxMatches == 2
MaxCands == 2

\* Coefficients of the sequences handed to the evaluator in SpecGCF.
TermVals == -2 .. 2

(***************************************************************************)
(* Integer helpers                                                         *)
(***************************************************************************)
Abs(x) == IF x < 0 THEN -x ELSE x

RECURSIVE Pow10(_)
Pow10(n) == IF n <= 0 THEN 1 ELSE 10 * Pow10(n - 1)

\* A rounding away from zero where the code truncates.
IntRoundAway(num, den) ==
    LET n == Abs(num)
        d == Abs(den)
        m == IF n % d = 0 THEN n \div d ELSE (n \div d) + 1
    IN  IF (num >= 0) = (den > 0) THEN m ELSE -m

\* Python's int() of the quotient num/den: truncation toward zero.
IntTrunc(num, den) ==
    IF (num >= 0) = (den > 0)
      THEN Abs(num) \div Abs(den)
      ELSE -(Abs(num) \div Abs(den))

(***************************************************************************)
(* GCFEnumerator.__init__: threshold = 10 ** (-g_N_initial_key_length),    *)
(* kept as the exact fraction num/den.                                     *)
(***************************************************************************)
threshold == [num |-> 1, den |-> Pow10(g_N_initial_key_length)]

\* key_factor = 1 / self.threshold
key_factor == threshold.den \div threshold.num

(***************************************************************************)
(* efficient_gcf_calculation.  Sequences are 1-based here: the code's      *)
(* a_[i] is a[i + 1] and its b_[i - 1] is b[i].                            *)
(***************************************************************************)
GcfStart(a) == [prev_q |-> 0, q |-> 1, prev_p |-> 1, p |-> a[1]]

\* A body that reads b_[i] where the code reads b_[i - 1].
LoopBodyShifted(st, a, b, i) ==
    [q      |-> a[i + 1] * st.q + b[i + 1] * st.prev_q,
     p      |-> a[i + 1] * st.p + b[i + 1] * st.prev_p,
     prev_q |-> st.q,
     prev_p |-> st.p]

\* One pass of `for i in range(1, len(a_))`.
LoopBody(st, a, b, i) ==
    [q      |-> a[i + 1] * st.q + b[i] * st.prev_q,
     p      |-> a[i + 1] * st.p + b[i] * st.prev_p,
     prev_q |-> st.q,
     prev_p |-> st.p]

RECURSIVE GcfLoop(_, _, _, _)
GcfLoop(st, a, b, i) ==
    IF i >= Len(a) THEN st ELSE GcfLoop(LoopBody(st, a, b, i), a, b, i + 1)

\* A return without the `if q == 0` guard: the division raises.
HashKeyUnsafe(pp, qq) ==
    IF qq = 0
      THEN [raised |-> TRUE, key |-> 0]
      ELSE [raised |-> FALSE, key |-> IntTrunc(pp * key_factor, qq)]

\* `if q == 0: value = 0 else: value = p / q; return int(value * key_factor)`
\* raised is the ZeroDivisionError of mpf(p) / mpf(q), which the guard prevents.
HashKey(pp, qq) ==
    IF qq = 0
      THEN [raised |-> FALSE, key |-> IntTrunc(0 * key_factor, 1)]
      ELSE [raised |-> FALSE, key |-> IntTrunc(pp * key_factor, qq)]

\* The whole closure, as the enumeration calls it.
efficient_gcf_calculation(a, b) ==
    LET st == GcfLoop(GcfStart(a), a, b, 1)
        h  == HashKey(st.p, st.q)
    IN  [p |-> st.p, q |-> st.q, raised |-> h.raised, key |-> h.key]

(***************************************************************************)
(* SpecGCF: the evaluator, one loop pass per step, on arbitrary sequences  *)
(* of equal length 1 .. MaxLen.                                            *)
(***************************************************************************)
SeqsOfLen(S, n) == [1 .. n -> S]

EnumIdle ==
    /\ poly_a = <<>> /\ poly_b = <<>> /\ hash_table = {}
    /\ print_results = FALSE /\ pc = "idle"
    /\ size_a = 0 /\ size_b = 0 /\ num_iterations = 0 /\ counter = 0
    /\ coef_list = <<>> /\ series_list = <<>> /\ cached_idx = <<>>
    /\ outer = 0 /\ inner = 0 /\ results = <<>> /\ evals = <<>>

GcfIdle ==
    /\ a_ = <<>> /\ b_ = <<>>
    /\ prev_q = 0 /\ q = 0 /\ prev_p = 0 /\ p = 0
    /\ gcf_i = 0 /\ gcf_pc = "idle" /\ gcf_key = 0

RefIdle ==
    /\ intermediate_results = <<>> /\ lhs_table = <<>> /\ gcf_value = <<>>
    /\ ref_pc = "idle" /\ ref_counter = 0 /\ refined = <<>>

InitGCF ==
    /\ \E n \in 1 .. MaxLen :
         /\ a_ \in SeqsOfLen(TermVals, n)
         /\ b_ \in SeqsOfLen(TermVals, n)
    /\ prev_q = GcfStart(a_).prev_q
    /\ q = GcfStart(a_).q
    /\ prev_p = GcfStart(a_).prev_p
    /\ p = GcfStart(a_).p
    /\ gcf_i = 1
    /\ gcf_pc = "loop"
    /\ gcf_key = 0
    /\ EnumIdle
    /\ RefIdle

GcfStep ==
    /\ gcf_pc = "loop"
    /\ gcf_i < Len(a_)
    /\ LET st == LoopBody([prev_q |-> prev_q, q |-> q, prev_p |-> prev_p, p |-> p],
                          a_, b_, gcf_i)
       IN  /\ q' = st.q
           /\ p' = st.p
           /\ prev_q' = st.prev_q
           /\ prev_p' = st.prev_p
    /\ gcf_i' = gcf_i + 1
    /\ UNCHANGED <<a_, b_, gcf_pc, gcf_key, enumVars, refVars>>

GcfReturn ==
    /\ gcf_pc = "loop"
    /\ gcf_i >= Len(a_)
    /\ gcf_key' = HashKey(p, q).key
    /\ gcf_pc' = IF HashKey(p, q).raised THEN "raised" ELSE "returned"
    /\ UNCHANGED <<a_, b_, prev_q, q, prev_p, p, gcf_i, enumVars, refVars>>

NextGCF == GcfStep \/ GcfReturn

SpecGCF == InitGCF /\ [][NextGCF]_vars

(***************************************************************************)
(* Reference definitions for the evaluator                                 *)
(***************************************************************************)
\* The three-term recurrence, top down; k is the code's 0-based index.
RECURSIVE RefP(_, _, _)
RefP(a, b, k) ==
    IF k = -1 THEN 1
    ELSE IF k = 0 THEN a[1]
    ELSE a[k + 1] * RefP(a, b, k - 1) + b[k] * RefP(a, b, k - 2)

RECURSIVE RefQ(_, _, _)
RefQ(a, b, k) ==
    IF k = -1 THEN 0
    ELSE IF k = 0 THEN 1
    ELSE a[k + 1] * RefQ(a, b, k - 1) + b[k] * RefQ(a, b, k - 2)

\* The convergent a_k + b_k / (a_{k+1} + ... + b_{L-2} / a_{L-1}), expanded
\* from the innermost fraction outward as an exact fraction num/den;
\* ok = FALSE when a division by zero occurs on the way.
RECURSIVE Convergent(_, _, _)
Convergent(a, b, k) ==
    IF k = Len(a) - 1
      THEN [ok |-> TRUE, num |-> a[k + 1], den |-> 1]
      ELSE LET t == Convergent(a, b, k + 1)
           IN  IF ~t.ok \/ t.num = 0
                 THEN [ok |-> FALSE, num |-> 0, den |-> 1]
                 ELSE [ok  |-> TRUE,
                       num |-> a[k + 1] * t.num + b[k + 1] * t.den,
                       den |-> t.num]

\* C5: when efficient_gcf_calculation has left its loop, (p, q) is
\* (P_{L-1}, Q_{L-1}) of the three-term recurrence, and p/q is the convergent
\* a_0 + b_0/(a_1 + ... + b_{L-2}/a_{L-1}) whenever that expansion is defined.
RecurrenceCorrect ==
    (gcf_pc = "loop" /\ gcf_i >= Len(a_)) \/ gcf_pc = "returned" =>
        /\ p = RefP(a_, b_, Len(a_) - 1)
        /\ q = RefQ(a_, b_, Len(a_) - 1)
        /\ LET t == Convergent(a_, b_, 0)
           IN  t.ok => /\ q # 0
                       /\ p * t.den = q * t.num

\* C5 witness: a finished evaluation of full length whose expansion is
\* defined and whose value is not an integer.
RecurrenceWitness ==
    /\ gcf_pc = "returned"
    /\ Len(a_) = MaxLen
    /\ Convergent(a_, b_, 0).ok
    /\ q # 0 /\ Abs(q) # 1
    /\ p % Abs(q) # 0


(***************************************************************************)
(* Series generators (series_generators.py, outside src/): the cartesian   *)
(* product generators, modelled from their interface in the specification  *)
(* and from the __first_enumeration docstring.                             *)
(***************************************************************************)
\* iterate(spec): itertools.product(*spec), first list slowest.
RECURSIVE get_iterator(_)
get_iterator(poly) ==
    IF poly = <<>> THEN << <<>> >>
    ELSE LET H == Head(poly)
             R == get_iterator(Tail(poly))
         IN  [k \in 1 .. Len(H) * Len(R) |->
                <<H[((k - 1) \div Len(R)) + 1]>> \o R[((k - 1) % Len(R)) + 1]]

\* count(spec): the product of the lengths of the coefficient lists.
RECURSIVE get_num_iterations(_)
get_num_iterations(poly) ==
    IF poly = <<>> THEN 1 ELSE Len(Head(poly)) * get_num_iterations(Tail(poly))

\* The polynomial n(n(..(n*c_1 + c_2) + ..) + c_k at n.
RECURSIVE PolyAt(_, _, _)
PolyAt(coef, n, acc) ==
    IF coef = <<>> THEN acc ELSE PolyAt(Tail(coef), n, acc * n + Head(coef))

\* generate(coefficients, n_terms): the terms at n = 0 .. n_terms - 1.
create_series(coef, n_terms) == [k \in 1 .. n_terms |-> PolyAt(coef, k - 1, 0)]

create_an_series(coef, n_terms) == create_series(coef, n_terms)
create_bn_series(coef, n_terms) == create_series(coef, n_terms)

(***************************************************************************)
(* __create_series_list                                                    *)
(***************************************************************************)
Range(s) == {s[k] : k \in DOMAIN s}

\* `0 not in an` / `0 not in an[1:]`
NoZeroIn(s) == 0 \notin Range(s)

\* itertools.compress(data, selectors)
RECURSIVE compress(_, _)
compress(data, selectors) ==
    IF data = <<>> \/ selectors = <<>> THEN <<>>
    ELSE (IF Head(selectors) THEN <<Head(data)>> ELSE <<>>)
         \o compress(Tail(data), Tail(selectors))

\* A filter that ignores filter_from_1 and always looks at every term.
series_filter_all(series, filter_from_1) ==
    [k \in DOMAIN series |-> NoZeroIn(series[k])]

series_filter(series, filter_from_1) ==
    [k \in DOMAIN series |->
        IF filter_from_1 THEN NoZeroIn(Tail(series[k])) ELSE NoZeroIn(series[k])]

\* Returns coef_list and series_list; idx is the ghost iterator position.
create_series_list(coefficient_iter, is_an, filter_from_1) ==
    LET coefs  == coefficient_iter
        series == [k \in DOMAIN coefs |->
                     IF is_an
                       THEN create_an_series(coefs[k], g_N_initial_search_terms)
                       ELSE create_bn_series(coefs[k], g_N_initial_search_terms)]
        keep   == series_filter(series, filter_from_1)
    IN  [series_list |-> compress(series, keep),
         coef_list   |-> compress(coefs, keep),
         idx         |-> compress([k \in DOMAIN coefs |-> k], keep)]

(***************************************************************************)
(* __first_enumeration                                                     *)
(***************************************************************************)
Match(lhs_key, rhs_an_poly, rhs_bn_poly) ==
    [lhs_key |-> lhs_key, rhs_an_poly |-> rhs_an_poly, rhs_bn_poly |-> rhs_bn_poly]

\* Inputs of SpecEnum: each specification is a pair of coefficient lists.
CoefLists ==
    { <<>>, <<0>>, <<1>>, <<-1>>, <<-1, 1>>, <<0, 1>>, <<1, 1>> }

PolySpecs == { <<c1, c2>> : c1 \in CoefLists, c2 \in CoefLists }

\* The keys of the values 0 and 1.
KeyPool == {0, key_factor}

InitEnum ==
    /\ poly_a \in PolySpecs
    /\ poly_b \in PolySpecs
    /\ hash_table \in SUBSET KeyPool
    /\ print_results \in BOOLEAN
    /\ pc = "start"
    /\ size_a = 0 /\ size_b = 0 /\ num_iterations = 0 /\ counter = 0
    /\ coef_list = <<>> /\ series_list = <<>> /\ cached_idx = <<>>
    /\ outer = 0 /\ inner = 0 /\ results = <<>> /\ evals = <<>>
    /\ GcfIdle
    /\ RefIdle

a_coef_iter == get_iterator(poly_a)
b_coef_iter == get_iterator(poly_b)

\* Lines 158-168: sizes, num_iterations, counters, results.
Start ==
    /\ pc = "start"
    /\ size_b' = get_num_iterations(poly_b)
    /\ size_a' = get_num_iterations(poly_a)
    /\ num_iterations' = size_b' * size_a'
    /\ counter' = 0
    /\ results' = <<>>
    /\ pc' = "branch"
    /\ UNCHANGED <<poly_a, poly_b, hash_table, print_results, coef_list,
                   series_list, cached_idx, outer, inner, evals, gcfVars, refVars>>

\* Lines 170-176: size_a > size_b, cache {bn}.
CacheBn ==
    /\ pc = "branch"
    /\ size_a > size_b
    /\ LET c == create_series_list(b_coef_iter, FALSE, FALSE)
       IN  /\ coef_list' = c.coef_list
           /\ series_list' = c.series_list
           /\ cached_idx' = c.idx
           /\ IF get_num_iterations(poly_b) = 0
                THEN /\ pc' = "raised_173"
                     /\ UNCHANGED num_iterations
                ELSE /\ num_iterations' =
                          (num_iterations \div get_num_iterations(poly_b))
                              * Len(c.series_list)
                     /\ pc' = "for_a"
    /\ outer' = 0
    /\ UNCHANGED <<poly_a, poly_b, hash_table, print_results, size_a, size_b,
                   counter, inner, results, evals, gcfVars, refVars>>

\* Lines 199-205: otherwise, cache {an}.
CacheAn ==
    /\ pc = "branch"
    /\ ~(size_a > size_b)
    /\ LET c == create_series_list(a_coef_iter, TRUE, TRUE)
       IN  /\ coef_list' = c.coef_list
           /\ series_list' = c.series_list
           /\ cached_idx' = c.idx
           /\ IF get_num_iterations(poly_a) = 0
                THEN /\ pc' = "raised_202"
                     /\ UNCHANGED num_iterations
                ELSE /\ num_iterations' =
                          (num_iterations \div get_num_iterations(poly_a))
                              * Len(c.series_list)
                     /\ pc' = "for_b"
    /\ outer' = 0
    /\ UNCHANGED <<poly_a, poly_b, hash_table, print_results, size_a, size_b,
                   counter, inner, results, evals, gcfVars, refVars>>

\* `if 0 in an[1:]` on the streamed side.
StreamedAnZero(an) == ~NoZeroIn(Tail(an))

\* `if 0 in bn` on the streamed side.
StreamedBnZero(bn) == ~NoZeroIn(bn)

\* Lines 177-182: next a_coef of the iterator, or the end of the loop.
ForA ==
    /\ pc = "for_a"
    /\ IF outer >= Len(a_coef_iter)
         THEN /\ pc' = "done"
              /\ UNCHANGED <<outer, inner, counter>>
         ELSE LET an == create_an_series(a_coef_iter[outer + 1],
                                         g_N_initial_search_terms)
              IN  /\ outer' = outer + 1
                  /\ IF StreamedAnZero(an)
                       THEN /\ counter' = counter + Len(series_list)
                            /\ UNCHANGED <<pc, inner>>
                       ELSE /\ inner' = 0
                            /\ pc' = "for_bn_coef"
                            /\ UNCHANGED counter
    /\ UNCHANGED <<poly_a, poly_b, hash_table, print_results, size_a, size_b,
                   num_iterations, coef_list, series_list, cached_idx,
                   results, evals, gcfVars, refVars>>

\* Line 190: Match(key, a_coef, bn_coef[1])
MatchOfBnCached(key, a_coef, bn_series, b_coef) == Match(key, a_coef, b_coef)

\* Line 218 with the two tuples swapped.
MatchOfAnCachedSwapped(key, an_series, a_coef, b_coef) == Match(key, b_coef, a_coef)
\* Line 218: Match(key, an_coef[1], b_coef)
MatchOfAnCached(key, an_series, a_coef, b_coef) == Match(key, a_coef, b_coef)

\* Lines 183-197: one pass of `for bn_coef in zip(bn_list, b_coef_list)`.
ForBnCoef ==
    /\ pc = "for_bn_coef"
    /\ IF inner >= Len(series_list)
         THEN /\ pc' = "for_a"
              /\ UNCHANGED <<inner, results, evals, counter>>
         ELSE LET a_coef == a_coef_iter[outer]
                  an == create_an_series(a_coef, g_N_initial_search_terms)
                  bn == series_list[inner + 1]
                  r  == efficient_gcf_calculation(an, bn)
              IN  /\ inner' = inner + 1
                  /\ evals' = Append(evals, [ai |-> outer, bi |-> cached_idx[inner + 1],
                                             p |-> r.p, q |-> r.q, key |-> r.key,
                                             raised |-> r.raised])
                  /\ IF r.raised
                       THEN /\ pc' = "raised_155"
                            /\ UNCHANGED <<results, counter>>
                       ELSE /\ results' =
                                 IF r.key \in hash_table
                                   THEN Append(results,
                                               MatchOfBnCached(r.key, a_coef, bn,
                                                               coef_list[inner + 1]))
                                   ELSE results
                            /\ counter' = IF print_results THEN counter + 1 ELSE counter
                            /\ UNCHANGED pc
    /\ UNCHANGED <<poly_a, poly_b, hash_table, print_results, size_a, size_b,
                   num_iterations, coef_list, series_list, cached_idx, outer,
                   gcfVars, refVars>>

\* Lines 206-211: next b_coef of the iterator, or the end of the loop.
ForB ==
    /\ pc = "for_b"
    /\ IF outer >= Len(b_coef_iter)
         THEN /\ pc' = "done"
              /\ UNCHANGED <<outer, inner, counter>>
         ELSE LET bn == create_bn_series(b_coef_iter[outer + 1],
                                         g_N_initial_search_terms)
              IN  /\ outer' = outer + 1
                  /\ IF StreamedBnZero(bn)
                       THEN /\ counter' = counter + Len(series_list)
                            /\ UNCHANGED <<pc, inner>>
                       ELSE /\ inner' = 0
                            /\ pc' = "for_an_coef"
                            /\ UNCHANGED counter
    /\ UNCHANGED <<poly_a, poly_b, hash_table, print_results, size_a, size_b,
                   num_iterations, coef_list, series_list, cached_idx,
                   results, evals, gcfVars, refVars>>

\* Lines 212-225: one pass of `for an_coef in zip(an_list, a_coef_list)`.
ForAnCoef ==
    /\ pc = "for_an_coef"
    /\ IF inner >= Len(series_list)
         THEN /\ pc' = "for_b"
              /\ UNCHANGED <<inner, results, evals, counter>>
         ELSE LET b_coef == b_coef_iter[outer]
                  bn == create_bn_series(b_coef, g_N_initial_search_terms)
                  an == series_list[inner + 1]
                  r  == efficient_gcf_calculation(an, bn)
              IN  /\ inner' = inner + 1
                  /\ evals' = Append(evals, [ai |-> cached_idx[inner + 1], bi |-> outer,
                                             p |-> r.p, q |-> r.q, key |-> r.key,
                                             raised |-> r.raised])
                  /\ IF r.raised
                       THEN /\ pc' = "raised_155"
                            /\ UNCHANGED <<results, counter>>
                       ELSE /\ results' =
                                 IF r.key \in hash_table
                                   THEN Append(results,
                                               MatchOfAnCached(r.key, an,
                                                               coef_list[inner + 1],
                                                               b_coef))
                                   ELSE results
                            /\ counter' = IF print_results THEN counter + 1 ELSE counter
                            /\ UNCHANGED pc
    /\ UNCHANGED <<poly_a, poly_b, hash_table, print_results, size_a, size_b,
                   num_iterations, coef_list, series_list, cached_idx, outer,
                   gcfVars, refVars>>

NextEnum == Start \/ CacheBn \/ CacheAn \/ ForA \/ ForBnCoef \/ ForB \/ ForAnCoef

SpecEnum == InitEnum /\ [][NextEnum]_vars


(***************************************************************************)
(* Properties of __first_enumeration                                       *)
(***************************************************************************)
N0 == g_N_initial_search_terms

\* The a-tuple at iterator position i has no zero in terms 1 .. N-1.
OkA(i) ==
    LET s == create_an_series(a_coef_iter[i], N0)
    IN  \A k \in 2 .. N0 : s[k] # 0

\* The b-tuple at iterator position j has no zero in any term.
OkB(j) ==
    LET s == create_bn_series(b_coef_iter[j], N0)
    IN  \A k \in 1 .. N0 : s[k] # 0

NumOkA == Cardinality({i \in DOMAIN a_coef_iter : OkA(i)})
NumOkB == Cardinality({j \in DOMAIN b_coef_iter : OkB(j)})

TimesEvaluated(i, j) ==
    Cardinality({k \in DOMAIN evals : evals[k].ai = i /\ evals[k].bi = j})

Returned == pc = "done"
Raised == pc \in {"raised_173", "raised_202", "raised_155"}

\* C1: every pair of the m x n product is accounted for exactly once: never
\* evaluated twice, never evaluated when its a-sequence has a zero in terms
\* 1..N-1 or its b-sequence a zero anywhere, and, once the enumeration has
\* ended, evaluated exactly once otherwise; the number of evaluated pairs is
\* (m - excluded a-tuples) * (n - excluded b-tuples).
CartesianComplete ==
    /\ \A k \in DOMAIN evals :
          /\ evals[k].ai \in DOMAIN a_coef_iter
          /\ evals[k].bi \in DOMAIN b_coef_iter
    /\ \A i \in DOMAIN a_coef_iter : \A j \in DOMAIN b_coef_iter :
          /\ TimesEvaluated(i, j) <= 1
          /\ ~(OkA(i) /\ OkB(j)) => TimesEvaluated(i, j) = 0
          /\ (Returned \/ Raised) /\ OkA(i) /\ OkB(j) => TimesEvaluated(i, j) = 1
    /\ (Returned \/ Raised) =>
          Len(evals) = (Len(a_coef_iter) - (Len(a_coef_iter) - NumOkA))
                        * (Len(b_coef_iter) - (Len(b_coef_iter) - NumOkB))

\* C1 witness: a finished enumeration with {bn} cached in which tuples were
\* excluded on both sides and several pairs were evaluated.
CartesianWitness ==
    /\ Returned
    /\ size_a > size_b
    /\ NumOkA < Len(a_coef_iter)
    /\ NumOkB < Len(b_coef_iter)
    /\ Len(evals) >= 2

\* The value of an evaluated pair as a fraction: 0 when q = 0.
ValueOf(e) == IF e.q = 0 THEN [num |-> 0, den |-> 1] ELSE [num |-> e.p, den |-> e.q]

\* |v - w| <= threshold, in exact arithmetic.
WithinThreshold(v, w) ==
    Abs(v.num * w.den - w.num * v.den) * threshold.den
        <= Abs(v.den * w.den) * threshold.num

Sign(v) == IF v.num = 0 THEN 0 ELSE IF (v.num > 0) = (v.den > 0) THEN 1 ELSE -1

ZeroDenominatorSafe ==
    [][ (Len(evals') = Len(evals) + 1 /\ evals'[Len(evals')].q = 0)
          => /\ evals'[Len(evals')].key = 0
             /\ ~evals'[Len(evals')].raised
             /\ pc' = pc
             /\ inner' = inner + 1 ]_vars

\* C6 witness: a pair with q = 0 was evaluated and another pair after it.
ZeroDenominatorWitness ==
    \E k \in DOMAIN evals : evals[k].q = 0 /\ k < Len(evals)

\* The Matches of a log of evaluated pairs: one per pair whose key is in the
\* hash table, with the coefficient tuples of the two iterators.
RECURSIVE MatchesOf(_)
MatchesOf(log) ==
    IF log = <<>> THEN <<>>
    ELSE LET e == Head(log)
         IN  (IF e.key \in hash_table
                THEN <<Match(e.key, a_coef_iter[e.ai], b_coef_iter[e.bi])>>
                ELSE <<>>)
             \o MatchesOf(Tail(log))

\* C9: the result list holds exactly one Match per evaluated pair whose key
\* is in the hash table, carrying that key, the a-tuple in rhs_an_poly and the
\* b-tuple in rhs_bn_poly; the key is the quantized GCF of the sequences the
\* two tuples generate, and neither tuple was removed by the zero filter.
MatchesSoundComplete ==
    /\ results = MatchesOf(evals)
    /\ \A k \in DOMAIN evals :
          /\ OkA(evals[k].ai) /\ OkB(evals[k].bi)
          /\ evals[k].key =
               efficient_gcf_calculation(
                   create_an_series(a_coef_iter[evals[k].ai], N0),
                   create_bn_series(b_coef_iter[evals[k].bi], N0)).key
    /\ \A k \in DOMAIN results :
          /\ results[k].lhs_key \in hash_table
          /\ \E i \in DOMAIN a_coef_iter : OkA(i) /\ results[k].rhs_an_poly = a_coef_iter[i]
          /\ \E j \in DOMAIN b_coef_iter : OkB(j) /\ results[k].rhs_bn_poly = b_coef_iter[j]

\* C9 witness: a finished enumeration with {an} cached that found a match,
\* evaluated a pair that is no match, and filtered a cached tuple out.
MatchesWitness ==
    /\ Returned
    /\ ~(size_a > size_b)
    /\ Len(results) >= 1
    /\ Len(results) < Len(evals)
    /\ NumOkA < Len(a_coef_iter)
    /\ \E k \in DOMAIN results : results[k].rhs_an_poly # results[k].rhs_bn_poly

\* C10: __first_enumeration never raises while computing the iteration count.
FirstEnumerationNeverRaises == pc \notin {"raised_173", "raised_202"}


(***************************************************************************)
(* High-precision values (mpmath.mpf) of the refinement: a finite value is *)
(* a positive integer count m of units of the last digit kept, next to     *)
(* +inf and nan.                                                           *)
(***************************************************************************)
Fin(m) == [kind |-> "fin", m |-> m]
Inf == [kind |-> "inf", m |-> 0]
NaN == [kind |-> "nan", m |-> 0]

\* mpmath.isinf / mpmath.isnan
isinf(val) == val.kind = "inf"
isnan(val) == val.kind = "nan"

RECURSIVE NumDigits(_)
NumDigits(m) == IF m < 10 THEN 1 ELSE 1 + NumDigits(m \div 10)

RECURSIVE DigitsOf(_)
DigitsOf(m) == IF m < 10 THEN <<m>> ELSE Append(DigitsOf(m \div 10), m % 10)

RECURSIVE StripZeros(_)
StripZeros(m) == IF m # 0 /\ m % 10 = 0 THEN StripZeros(m \div 10) ELSE m

\* m rounded to n significant digits, ties to even.
RoundSig(m, n) ==
    LET d == NumDigits(m)
    IN  IF d <= n THEN m
        ELSE LET unit == Pow10(d - n)
                 lo   == m \div unit
                 rest == m % unit
                 up   == \/ 2 * rest > unit
                         \/ (2 * rest = unit /\ lo % 2 = 1)
             IN  (IF up THEN lo + 1 ELSE lo) * unit

\* m cut to n significant digits.
TruncSig(m, n) ==
    LET d == NumDigits(m)
    IN  IF d <= n THEN m ELSE (m \div Pow10(d - n)) * Pow10(d - n)

\* A rendering that cuts the digits after the n-th instead of rounding.
nstr_truncating(val, n) ==
    LET r == TruncSig(val.m, n)
    IN  [digits |-> DigitsOf(StripZeros(r)), exp |-> NumDigits(r) - 1]

\* mpmath.nstr(val, n): the decimal string of val rounded to n significant
\* digits, as its digits without trailing zeros and its decimal exponent.
nstr(val, n) ==
    LET r == RoundSig(val.m, n)
    IN  [digits |-> DigitsOf(StripZeros(r)), exp |-> NumDigits(r) - 1]

(***************************************************************************)
(* __refine_results                                                        *)
(***************************************************************************)
RefinedMatch(res, idx) ==
    [lhs_key |-> res.lhs_key, rhs_an_poly |-> res.rhs_an_poly,
     rhs_bn_poly |-> res.rhs_bn_poly, lhs_match_idx |-> idx]

\* The LHS value of the synthetic table and a second value far from it.
LhsBase == 2 * Pow10(g_N_verify_compare_length) + 4
LhsVals == {Fin(LhsBase), Fin(3 * Pow10(g_N_verify_compare_length)), Inf, NaN}

\* Values of the GCF: the LHS value; one that differs from it in the digit
\* after the comparison length and rounds alike; one that differs there and
\* rounds the other way; one that differs within the comparison length and
\* is carried to the same rounding.
GcfVals == {Fin(LhsBase), Fin(LhsBase - 1), Fin(LhsBase + 2), Fin(LhsBase - 8)}

\* hash_table.evaluate(key, constants): a list of values, or the error raised.
Values(vals) == [kind |-> "values", vals |-> vals]
Raises(err) == [kind |-> err, vals |-> <<>>]

CandLists == UNION {[1 .. n -> LhsVals] : n \in 0 .. MaxCands}
Outcomes == {Values(v) : v \in CandLists}
              \cup {Raises("KeyError"), Raises("ZeroDivisionError")}
\* The second key of the table: absent, undefined, the LHS value or a nan.
FewOutcomes ==
    {Raises("KeyError"), Raises("ZeroDivisionError"),
     Values(<<Fin(LhsBase)>>), Values(<<NaN>>)}

\* The polynomial pairs of the batch and the high-precision value of the GCF of
\* each: EfficientGCF(an, bn).evaluate() (mobius.py, outside src/) is an
\* input of the model.
PolyPairs == { <<(<<1>>), (<<1>>)>>, <<(<<0, 1>>), (<<2>>)>> }
LhsKeys == {0, 1}
Matches == { Match(k, pp[1], pp[2]) : k \in LhsKeys, pp \in PolyPairs }

EfficientGCF_evaluate(res) == gcf_value[<<res.rhs_an_poly, res.rhs_bn_poly>>]

InitRefine ==
    /\ \E n \in 0 .. MaxMatches : intermediate_results \in [1 .. n -> Matches]
    /\ \E o0 \in Outcomes : \E o1 \in FewOutcomes :
          lhs_table = [k \in LhsKeys |-> IF k = 0 THEN o0 ELSE o1]
    /\ gcf_value \in [PolyPairs -> GcfVals]
    /\ ref_pc = "loop"
    /\ ref_counter = 0
    /\ refined = <<>>
    /\ GcfIdle
    /\ EnumIdle

\* An except clause that catches the lookup error only.
CaughtKeyErrorOnly(err) == err \in {"KeyError"}
\* Line 255: except (ZeroDivisionError, KeyError)
Caught(err) == err \in {"ZeroDivisionError", "KeyError"}

\* Line 251: all values are neither inf nor nan.
AllFinite(all_matches) ==
    \A k \in DOMAIN all_matches : ~(isinf(all_matches[k]) \/ isnan(all_matches[k]))

\* An enumerate() that counts from 1.
CandidateIndexFrom1(k) == k
\* Line 264: enumerate(all_matches) counts from 0; k is the 1-based position.
CandidateIndex(k) == k - 1

\* A loop that stops at the first candidate that matches.
RECURSIVE MatchCandidatesFirstOnly(_, _, _, _)
MatchCandidatesFirstOnly(res, all_matches, rhs_str, k) ==
    IF k > Len(all_matches) THEN <<>>
    ELSE IF nstr(all_matches[k], g_N_verify_compare_length) = rhs_str
           THEN <<RefinedMatch(res, CandidateIndex(k))>>
           ELSE MatchCandidatesFirstOnly(res, all_matches, rhs_str, k + 1)

\* Lines 262-270: the RefinedMatches of one intermediate match.
RECURSIVE MatchCandidates(_, _, _, _)
MatchCandidates(res, all_matches, rhs_str, k) ==
    IF k > Len(all_matches) THEN <<>>
    ELSE (IF nstr(all_matches[k], g_N_verify_compare_length) = rhs_str
            THEN <<RefinedMatch(res, CandidateIndex(k))>>
            ELSE <<>>)
         \o MatchCandidates(res, all_matches, rhs_str, k + 1)

\* Lines 242-270: one pass of `for res in intermediate_results`.
RefineStep ==
    /\ ref_pc = "loop"
    /\ ref_counter < Len(intermediate_results)
    /\ ref_counter' = ref_counter + 1
    /\ LET res == intermediate_results[ref_counter + 1]
           out == lhs_table[res.lhs_key]
       IN  IF out.kind # "values"
             THEN IF Caught(out.kind)
                    THEN UNCHANGED <<ref_pc, refined>>
                    ELSE /\ ref_pc' = "raised"
                         /\ UNCHANGED refined
             ELSE IF ~AllFinite(out.vals)
                    THEN UNCHANGED <<ref_pc, refined>>
                    ELSE LET rhs_str == nstr(EfficientGCF_evaluate(res),
                                             g_N_verify_compare_length)
                         IN  /\ refined' = refined \o
                                   MatchCandidates(res, out.vals, rhs_str, 1)
                             /\ UNCHANGED ref_pc
    /\ UNCHANGED <<intermediate_results, lhs_table, gcf_value, gcfVars, enumVars>>

\* Line 272: return results.
RefineReturn ==
    /\ ref_pc = "loop"
    /\ ref_counter >= Len(intermediate_results)
    /\ ref_pc' = "done"
    /\ UNCHANGED <<intermediate_results, lhs_table, gcf_value, ref_counter, refined,
                   gcfVars, enumVars>>

NextRefine == RefineStep \/ RefineReturn

SpecRefine == InitRefine /\ [][NextRefine]_vars


(***************************************************************************)
(* Properties of __refine_results                                          *)
(***************************************************************************)
CL == g_N_verify_compare_length

\* The table evaluation of res succeeds and returns finite values only.
Succeeds(res) ==
    /\ lhs_table[res.lhs_key].kind = "values"
    /\ \A k \in DOMAIN lhs_table[res.lhs_key].vals :
          lhs_table[res.lhs_key].vals[k].kind = "fin"

CandidatesOf(res) == lhs_table[res.lhs_key].vals

\* The 0-based candidate indices whose rendering equals the GCF's rendering.
EqualRenderings(res) ==
    {i \in 0 .. Len(CandidatesOf(res)) - 1 :
        nstr(CandidatesOf(res)[i + 1], CL) = nstr(EfficientGCF_evaluate(res), CL)}

Emitted(res, i) == \E k \in DOMAIN refined : refined[k] = RefinedMatch(res, i)

MatchOfRefined(r) == Match(r.lhs_key, r.rhs_an_poly, r.rhs_bn_poly)

\* C2: the pass over an intermediate match whose table evaluation succeeds
\* with finite values appends one RefinedMatch (lhs_key, an, bn, i) for each
\* candidate index i whose rendering to the comparison length equals the GCF's
\* rendering, and nothing else; with a table holding the single value V and
\* one intermediate match whose GCF is V, the result is exactly one
\* RefinedMatch, of index 0.
RefinementExact ==
    /\ [][ (ref_counter' = ref_counter + 1
              /\ Succeeds(intermediate_results[ref_counter + 1]))
            => LET res == intermediate_results[ref_counter + 1]
                   new == SubSeq(refined', Len(refined) + 1, Len(refined'))
               IN  /\ Len(refined') >= Len(refined)
                   /\ SubSeq(refined', 1, Len(refined)) = refined
                   /\ \A k \in DOMAIN new :
                         /\ new[k].lhs_match_idx \in EqualRenderings(res)
                         /\ new[k] = RefinedMatch(res, new[k].lhs_match_idx)
                   /\ \A i \in EqualRenderings(res) :
                         Cardinality({k \in DOMAIN new :
                                         new[k].lhs_match_idx = i}) = 1 ]_vars
    /\ [] ( (/\ ref_pc = "done"
             /\ Len(intermediate_results) = 1
             /\ Succeeds(intermediate_results[1])
             /\ Len(CandidatesOf(intermediate_results[1])) = 1
             /\ CandidatesOf(intermediate_results[1])[1]
                   = EfficientGCF_evaluate(intermediate_results[1]))
            => refined = <<RefinedMatch(intermediate_results[1], 0)>> )

\* C2 witness: the refinement of a single match against a table holding the
\* single value V, with the GCF equal to V, has returned its one RefinedMatch.
RefinementExactWitness ==
    /\ ref_pc = "done"
    /\ Len(intermediate_results) = 1
    /\ Succeeds(intermediate_results[1])
    /\ Len(CandidatesOf(intermediate_results[1])) = 1
    /\ CandidatesOf(intermediate_results[1])[1]
          = EfficientGCF_evaluate(intermediate_results[1])
    /\ Len(refined) = 1

\* V and G have the same first CL significant digits at the same exponent:
\* they differ, if at all, only from digit CL + 1 onward.
SamePrefix(v, g) ==
    /\ NumDigits(v.m) = NumDigits(g.m)
    /\ TruncSig(v.m, CL) = TruncSig(g.m, CL)

\* The rounding to CL digits goes up.
RoundsUp(v) == RoundSig(v.m, CL) > TruncSig(v.m, CL)

Processed == {intermediate_results[k] : k \in 1 .. ref_counter}

\* C3 as stated: a candidate V matches the GCF value G when G differs from V
\* only after the first CL significant digits, and does not match when G
\* differs from V within them.
PrefixDecidesMatch ==
    ref_pc = "done" =>
        \A res \in Processed :
            Succeeds(res) =>
                \A i \in 0 .. Len(CandidatesOf(res)) - 1 :
                    LET v == CandidatesOf(res)[i + 1]
                        g == EfficientGCF_evaluate(res)
                    IN  /\ SamePrefix(v, g) => Emitted(res, i)
                        /\ ~SamePrefix(v, g) => ~Emitted(res, i)

\* C3 amended: a candidate V matches the GCF value G exactly when V and G
\* rounded to CL significant digits are the same number; a G that differs from
\* V only after the first CL digits matches exactly when both round in the
\* same direction.
RoundingDecidesMatch ==
    ref_pc = "done" =>
        \A res \in Processed :
            Succeeds(res) =>
                \A i \in 0 .. Len(CandidatesOf(res)) - 1 :
                    LET v == CandidatesOf(res)[i + 1]
                        g == EfficientGCF_evaluate(res)
                    IN  /\ Emitted(res, i) <=> RoundSig(v.m, CL) = RoundSig(g.m, CL)
                        /\ SamePrefix(v, g) =>
                              (Emitted(res, i) <=> (RoundsUp(v) = RoundsUp(g)))

\* C3 witness: one finished batch in which a G that differs from V in digit
\* CL + 1 matched, and a G that differs from V in digit CL + 1 did not.
RoundingWitness ==
    /\ ref_pc = "done"
    /\ \E res \in Processed : \E i \in 0 .. Len(CandidatesOf(res)) - 1 :
          /\ Succeeds(res)
          /\ SamePrefix(CandidatesOf(res)[i + 1], EfficientGCF_evaluate(res))
          /\ CandidatesOf(res)[i + 1] # EfficientGCF_evaluate(res)
          /\ Emitted(res, i)
    /\ \E res \in Processed : \E i \in 0 .. Len(CandidatesOf(res)) - 1 :
          /\ Succeeds(res)
          /\ SamePrefix(CandidatesOf(res)[i + 1], EfficientGCF_evaluate(res))
          /\ ~Emitted(res, i)

\* C4 as stated: for every RefinedMatch exactly one candidate of its key
\* renders like its GCF, the one at lhs_match_idx.
ExactlyOneCandidate ==
    \A k \in DOMAIN refined :
        EqualRenderings(MatchOfRefined(refined[k])) = {refined[k].lhs_match_idx}

\* C4 amended: for every RefinedMatch the candidate at lhs_match_idx renders
\* like its GCF; every candidate j of the key that renders like the GCF has a
\* RefinedMatch of its own with index j; j is unique when the renderings of
\* the candidates of the key are pairwise different.
EveryEqualCandidate ==
    \A k \in DOMAIN refined :
        LET res == MatchOfRefined(refined[k])
            c   == CandidatesOf(res)
        IN  /\ Succeeds(res)
            /\ refined[k].lhs_match_idx \in EqualRenderings(res)
            /\ \A j \in EqualRenderings(res) : Emitted(res, j)
            /\ (\A i, j \in DOMAIN c :
                    i # j => nstr(c[i], CL) # nstr(c[j], CL))
                  => EqualRenderings(res) = {refined[k].lhs_match_idx}

\* C4 witness: two candidates of one key render like the GCF and each has its
\* RefinedMatch.
EveryEqualWitness ==
    \E k \in DOMAIN refined :
        /\ Cardinality(EqualRenderings(MatchOfRefined(refined[k]))) = 2
        /\ refined[k].lhs_match_idx = 1

\* The output of the refinement on a batch in which every evaluation
\* succeeds: for each match in turn, its equal candidates in index order.
ExpectedFor(res) ==
    LET idxs == [k \in 1 .. Len(CandidatesOf(res)) |-> k - 1]
        sel  == SelectSeq(idxs, LAMBDA i : i \in EqualRenderings(res))
    IN  [k \in DOMAIN sel |-> RefinedMatch(res, sel[k])]

RECURSIVE ExpectedAll(_)
ExpectedAll(batch) ==
    IF batch = <<>> THEN <<>>
    ELSE ExpectedFor(Head(batch)) \o ExpectedAll(Tail(batch))

\* C7: a match whose table evaluation raises KeyError or ZeroDivisionError, or
\* returns an inf or nan, adds nothing and raises nothing; after each pass,
\* and so at the return, the result is the result, in the same order, of the
\* matches passed so far without the failing ones.
FailuresDropped ==
    /\ ref_pc # "raised"
    /\ refined = ExpectedAll(SelectSeq(SubSeq(intermediate_results, 1, ref_counter),
                                       Succeeds))

\* C7 witness: a finished batch whose first match failed with
\* ZeroDivisionError and whose later match produced a RefinedMatch.
FailuresWitness ==
    /\ ref_pc = "done"
    /\ Len(intermediate_results) >= 2
    /\ lhs_table[intermediate_results[1].lhs_key].kind = "ZeroDivisionError"
    /\ Succeeds(intermediate_results[2])
    /\ Len(refined) >= 1

=============================================================================
